---- MODULE Spec2Model ----
(***************************************************************************)
(* Model of the sales-bot edge function (src/unnamed/part_000) and of the  *)
(* chat page that invokes it (src/src/pages/Index.tsx).                    *)
(*                                                                         *)
(* The edge function is one async handler.  Every `await` is a suspension  *)
(* point, so the handler is a sequence of atomic steps, one per await:     *)
(*   Serve -> ReadBody -> ImportKey -> Sign -> TokenResponse ->            *)
(*   DriveResponse -> SheetsResponse (once per file) -> AiResponse.        *)
(* A step runs the synchronous code up to the next await, which includes   *)
(* issuing the next fetch.  The four remote endpoints are the environment: *)
(* each answers with one of the outcomes enumerated below.                 *)
(***************************************************************************)
EXTENDS Integers, Sequences, FiniteSets, TLC

VARIABLES
    env,          \* Deno.env: the two configured secrets
    pc,           \* the await the handler is suspended at
    req,          \* the inbound request: method and body text
    query,        \* const query     (line 15)
    folderId,     \* const folderId  (line 15)
    access_token, \* const access_token (line 65)
    files,        \* const files (line 74)
    idx,          \* position of the for..of loop over files (line 84)
    allData,      \* let allData (line 82)
    responses,    \* the Response objects the handler has returned
    calls,        \* history: outbound fetches issued, in order
    inflight,     \* history: indices in calls whose fetch has not settled
    received,     \* history: the values replies read so far, one per file
    stages,       \* history: pipeline stages entered
    failed,       \* history: stage failures observed
    messages,     \* Index.tsx: useState messages
    input,        \* Index.tsx: useState input
    isLoading,    \* Index.tsx: useState isLoading
    pending,      \* Index.tsx: invoke('sales-bot') calls not yet settled
    submits,      \* history: number of submit events handled
    settled       \* history: the results of the invokes that have settled

serverVars == <<env, pc, req, query, folderId, access_token, files, idx,
                allData, responses, calls, inflight, received, stages, failed>>
pageVars == <<messages, input, isLoading, pending, submits, settled>>
vars == <<env, pc, req, query, folderId, access_token, files, idx, allData,
          responses, calls, inflight, received, stages, failed,
          messages, input, isLoading, pending, submits, settled>>

-----------------------------------------------------------------------------
(* Bounds of the model.                                                    *)

\* number of spreadsheets the folder listing can return
NumDocs == 2
\* number of data rows (below the header row) a values reply can hold
MaxRows == 2
\* number of submit events the chat page handles
MaxSubmits == 3

-----------------------------------------------------------------------------
(* Values of the program.                                                  *)

\* JavaScript undefined, as it prints in a template literal
Undefined == "undefined"

ErrorStatus == 500
\* `row.length >= 8`
MinCells == 8
\* the range A1:H is eight columns wide, so a reply row has at most 8 cells
RangeCols == 8

corsHeaders ==
    ("Access-Control-Allow-Origin" :> "*") @@
    ("Access-Control-Allow-Headers" :>
        "authorization, x-client-info, apikey, content-type")

JsonHeaders == corsHeaders @@ ("Content-Type" :> "application/json")

EmptyBody == [kind |-> "empty", obj |-> <<>>]
JsonBody(key, text) == [kind |-> "json", obj |-> (key :> text)]

\* new Response(null, { headers: corsHeaders }): the status defaults to 200
PreflightResponse == [status |-> 200, headers |-> corsHeaders, body |-> EmptyBody]

SuccessResponse(answer) ==
    [status |-> 200, headers |-> JsonHeaders, body |-> JsonBody("answer", answer)]

ErrorResponseNoCors(msg) ==
    [status |-> ErrorStatus,
     headers |-> ("Content-Type" :> "application/json"),
     body |-> JsonBody("error", msg)]
ErrorResponse(msg) ==
    [status |-> ErrorStatus, headers |-> JsonHeaders, body |-> JsonBody("error", msg)]

AllDataHeader ==
    "data,id_transacao,produto,categoria,regiao,quantidade,preco_unitario,receita_total,mes_origem\n"

MissingSecrets == "Missing required secrets"
NoSpreadsheets == "No spreadsheets found in folder"

-----------------------------------------------------------------------------
(* The configuration and the request, and how the handler reads them.      *)

\* Values Deno.env.get can return for GOOGLE_SERVICE_ACCOUNT
SaOk == "{\"client_email\":\"bot@alpha.iam\",\"private_key\":\"PEM(pkcs8)\"}"
SaNotPkcs8 == "{\"client_email\":\"bot@alpha.iam\",\"private_key\":\"PEM(text)\"}"
SaNotBase64 == "{\"client_email\":\"bot@alpha.iam\",\"private_key\":\"PEM(%%)\"}"
SaNotJson == "bot@alpha.iam"
ServiceAccountValues == {Undefined, "", SaNotJson, SaNotBase64, SaNotPkcs8, SaOk}
ApiKeyValues == {Undefined, "", "lov-key"}

Envs == [GOOGLE_SERVICE_ACCOUNT : ServiceAccountValues, LOVABLE_API_KEY : ApiKeyValues]

\* !v for a string or undefined
Falsy(v) == v = Undefined \/ v = ""

SecretsMissingAnd(e) == Falsy(e.GOOGLE_SERVICE_ACCOUNT) /\ Falsy(e.LOVABLE_API_KEY)
\* !serviceAccountJson || !lovableApiKey
SecretsMissing(e) == Falsy(e.GOOGLE_SERVICE_ACCOUNT) \/ Falsy(e.LOVABLE_API_KEY)

\* JSON.parse(serviceAccountJson)
ParseServiceAccount(s) ==
    CASE s = SaOk        -> [ok |-> TRUE, client_email |-> "bot@alpha.iam", private_key |-> "PEM(pkcs8)"]
      [] s = SaNotPkcs8  -> [ok |-> TRUE, client_email |-> "bot@alpha.iam", private_key |-> "PEM(text)"]
      [] s = SaNotBase64 -> [ok |-> TRUE, client_email |-> "bot@alpha.iam", private_key |-> "PEM(%%)"]
      [] OTHER           -> [ok |-> FALSE, client_email |-> Undefined, private_key |-> Undefined]

\* pemToArrayBuffer: strips the PEM armour and whitespace, then atob, which
\* throws on text that is not base64
pemToArrayBuffer(pem) ==
    CASE pem = "PEM(pkcs8)" -> [throws |-> FALSE, der |-> "pkcs8"]
      [] pem = "PEM(text)"  -> [throws |-> FALSE, der |-> "text"]
      [] OTHER              -> [throws |-> TRUE, der |-> ""]

\* crypto.subtle.importKey("pkcs8", ...) rejects bytes that are no PKCS#8 key
ImportKeyOk(der) == der = "pkcs8"

Methods == {"OPTIONS", "POST"}
ValidBody == "{\"query\":\"total de vendas?\",\"folderId\":\"F1\"}"
Bodies == {"", "null", ValidBody}

\* const { query, folderId } = await req.json()
ParseBody(b) ==
    CASE b = ValidBody -> [ok |-> TRUE, query |-> "total de vendas?", folderId |-> "F1",
                           msg |-> ""]
      [] b = "null"    -> [ok |-> FALSE, query |-> Undefined, folderId |-> Undefined,
                           msg |-> "Cannot destructure property 'query' of null"]
      [] OTHER         -> [ok |-> FALSE, query |-> Undefined, folderId |-> Undefined,
                           msg |-> "Unexpected end of JSON input"]

NoFilesFoundUndefinedOnly(f) == ~f.defined
\* !files || files.length === 0
NoFilesFound(f) == ~f.defined \/ Len(f.list) = 0

IsPreflightNever(m) == FALSE
\* req.method === 'OPTIONS'
IsPreflight(m) == m = "OPTIONS"

-----------------------------------------------------------------------------
(* The remote endpoints: what each can answer.  `throws` is a rejected     *)
(* fetch or a body that is not JSON (response.json() rejects); otherwise   *)
(* `ok` is response.ok and the remaining fields are the parsed body.        *)

Token == "ya29.T"
NetworkError == "error sending request"

TokenOutcomes ==
    { [throws |-> TRUE,  ok |-> FALSE, access_token |-> Undefined],
      [throws |-> FALSE, ok |-> FALSE, access_token |-> Undefined],
      [throws |-> FALSE, ok |-> TRUE,  access_token |-> Undefined],
      [throws |-> FALSE, ok |-> TRUE,  access_token |-> Token] }

\* The Drive and Sheets endpoints accept only a bearer token that the token
\* endpoint issued; any other Authorization header gets a 401 JSON error.
Authorized(tok) == tok = Token

Doc(i) == [id |-> "sheet" \o ToString(i), name |-> "vendas_" \o ToString(i)]
DocSet == { Doc(i) : i \in 1..NumDocs }

\* the sequences without repetition over a set (of documents, of rows)
RECURSIVE Orderings(_)
Orderings(S) ==
    IF S = {} THEN { <<>> }
    ELSE UNION { { <<d>> \o t : t \in Orderings(S \ {d}) } : d \in S }

FileLists == UNION { Orderings(S) : S \in SUBSET DocSet }

NoFiles == [defined |-> FALSE, list |-> <<>>]

DriveOutcomes(tok) ==
    { [throws |-> TRUE,  ok |-> FALSE, files |-> NoFiles],
      [throws |-> FALSE, ok |-> FALSE, files |-> NoFiles] }
    \cup
    ( IF Authorized(tok)
      THEN { [throws |-> FALSE, ok |-> TRUE, files |-> NoFiles] }
           \cup { [throws |-> FALSE, ok |-> TRUE,
                   files |-> [defined |-> TRUE, list |-> l]] : l \in FileLists }
      ELSE {} )

\* Rows of a values reply.  Cells are raw text; the reply omits trailing
\* empty cells, so a row can be shorter than the range.
HeaderRow == <<"data", "id_transacao", "produto", "categoria", "regiao",
               "quantidade", "preco_unitario", "receita_total">>
RowA == <<"2024-01-05", "T1", "Mouse", "Perifericos", "Sul", "2", "50", "100">>
RowB == <<"2024-01-09", "T2", "Monitor 27\"", "Video", "Norte", "1", "1.234,50", "1.234,50">>
RowShort == <<"2024-01-11", "T3", "Teclado", "Perifericos", "Sul", "3", "80">>
DataRows == { r \in {RowA, RowB, RowShort} : Len(r) <= RangeCols }

\* a values block: nothing, or the sheet's header row and up to MaxRows data
\* rows; the rows of a sheet differ from one another (id_transacao is unique)
ValueBlocks ==
    { <<>> } \cup
    { <<HeaderRow>> \o d :
        d \in UNION { Orderings(S) : S \in { T \in SUBSET DataRows : Cardinality(T) <= MaxRows } } }

NoValues == [defined |-> FALSE, rows |-> <<>>]

SheetsOutcomes(tok) ==
    { [throws |-> TRUE,  ok |-> FALSE, values |-> NoValues],
      [throws |-> FALSE, ok |-> FALSE, values |-> NoValues] }
    \cup
    ( IF Authorized(tok)
      THEN { [throws |-> FALSE, ok |-> TRUE, values |-> NoValues] }
           \cup { [throws |-> FALSE, ok |-> TRUE,
                   values |-> [defined |-> TRUE, rows |-> b]] : b \in ValueBlocks }
      ELSE {} )

AiErrorStatuses == {429, 500}
Answers == {"Receita total: R$ 100", "Sem dados"}

\* wellFormed: the body is JSON with choices[0].message.content
AiOutcomes ==
    { [throws |-> TRUE, ok |-> FALSE, status |-> 0, wellFormed |-> FALSE, content |-> ""] }
    \cup { [throws |-> FALSE, ok |-> FALSE, status |-> s, wellFormed |-> FALSE, content |-> ""]
           : s \in AiErrorStatuses }
    \cup { [throws |-> FALSE, ok |-> TRUE, status |-> 200, wellFormed |-> FALSE, content |-> ""] }
    \cup { [throws |-> FALSE, ok |-> TRUE, status |-> 200, wellFormed |-> TRUE, content |-> a]
           : a \in Answers }

-----------------------------------------------------------------------------
(* The synchronous code between awaits.                                    *)

\* row.join(',')
RECURSIVE JoinFrom(_, _)
JoinFrom(row, i) ==
    IF i > Len(row) THEN ""
    ELSE IF i = Len(row) THEN row[i]
    ELSE row[i] \o "," \o JoinFrom(row, i + 1)
Join(row) == JoinFrom(row, 1)

\* row.length >= 8
RowQualifies(row) == Len(row) >= MinCells

\* the body of the inner loop, from index i (1-based) to the last row
RECURSIVE AppendRows(_, _, _, _)
AppendRows(data, rows, name, i) ==
    IF i > Len(rows) THEN data
    ELSE AppendRows(IF RowQualifies(rows[i])
                    THEN data \o Join(rows[i]) \o "," \o name \o "\n"
                    ELSE data,
                    rows, name, i + 1)

ConsolidateWithHeader(data, values, name) ==
    IF values.defined /\ Len(values.rows) > 1
    THEN AppendRows(data, values.rows, name, 1)
    ELSE data
\* if (values && values.length > 1) { for (let i = 1; ...) }: the first row
\* is skipped (i = 1 is the second row, index 2 here)
Consolidate(data, values, name) ==
    IF values.defined /\ Len(values.rows) > 1
    THEN AppendRows(data, values.rows, name, 2)
    ELSE data

\* the user turn of the completion request
UserContent(q, data) == "Pergunta: " \o q \o "\n\n--- DADOS ---\n" \o data

Call(ep, arg, auth) == [ep |-> ep, arg |-> arg, auth |-> auth]
Bearer(tok) == "Bearer " \o tok

TokenCall == Call("token", "grant_type=jwt-bearer", "")
ListCall(folder, tok) == Call("list", folder, Bearer(tok))
ValuesCall(file, tok) == Call("values", file.id, Bearer(tok))
CompletionCall(q, data, key) == Call("completion", UserContent(q, data), Bearer(key))

Failure(stage, why) == [stage |-> stage, why |-> why, at |-> Len(calls)]

\* catch (error) { ... return new Response({error}, 500) }
Catch(stage, why, msg) ==
    /\ failed' = failed \cup {Failure(stage, why)}
    /\ responses' = Append(responses, ErrorResponse(msg))
    /\ inflight' = {}
    /\ pc' = "done"

FetchWithRetry(call, at) ==
    /\ calls' = calls \o <<call, call>>
    /\ inflight' = {Len(calls) + 2}
    /\ pc' = at
\* await fetch(...): the request is issued once and the handler suspends
\* until it settles
Fetch(call, at) ==
    /\ calls' = Append(calls, call)
    /\ inflight' = {Len(calls) + 1}
    /\ pc' = at

-----------------------------------------------------------------------------
(* The chat page (Index.tsx): its values and pure parts.                   *)

Msg(role, content) == [role |-> role, content |-> content]

Greeting == Msg("assistant", "Ola! Sou o **Alpha Insights Sales Bot**. Como posso ajudar?")
Apology == "Desculpe, ocorreu um erro ao processar sua consulta. Por favor, tente novamente."

DefaultFolderId == "1nSxvMxzoNCgk7XbTkk83w77VlNoQ2aRR"

\* what the user can have in the text box
InputTexts == {"", "  ", "total?", " por regiao "}

\* String.prototype.trim on the texts above
Trim(v) ==
    CASE v = "  "           -> ""
      [] v = " por regiao " -> "por regiao"
      [] OTHER              -> v

\* if (!input.trim() || isLoading) return;
SubmitIgnored(text, loading) == Trim(text) = "" \/ loading

\* What supabase.functions.invoke resolves to: { data, error }.  A response
\* that is not 2xx (every error envelope of the edge function) or a failed
\* request gives error; a 2xx JSON body gives data.
InvokeResults ==
    { [error |-> TRUE,  dataError |-> "", answer |-> ""] }
    \cup { [error |-> FALSE, dataError |-> NoSpreadsheets, answer |-> ""] }
    \cup { [error |-> FALSE, dataError |-> "", answer |-> a] : a \in Answers }

ReplySilentOnError(r) ==
    IF r.error \/ r.dataError # "" THEN <<>> ELSE <<Msg("assistant", r.answer)>>
\* lines 52-75: the assistant message the settled invoke adds
Reply(r) ==
    IF r.error \/ r.dataError # ""
    THEN <<Msg("assistant", Apology)>>
    ELSE <<Msg("assistant", r.answer)>>

-----------------------------------------------------------------------------
(* The handler, one action per suspension point.                           *)

\* the handler before a request arrives
ServerInit ==
    /\ pc = "idle"
    /\ req = [method |-> "", body |-> ""]
    /\ query = Undefined
    /\ folderId = Undefined
    /\ access_token = Undefined
    /\ files = NoFiles
    /\ idx = 0
    /\ allData = ""
    /\ responses = <<>>
    /\ calls = <<>>
    /\ inflight = {}
    /\ received = <<>>
    /\ stages = <<>>
    /\ failed = {}

\* the chat page after its first render
PageInit ==
    /\ messages = <<Greeting>>
    /\ input = ""
    /\ isLoading = FALSE
    /\ pending = <<>>
    /\ submits = 0
    /\ settled = <<>>

Init ==
    /\ env \in Envs
    /\ ServerInit
    /\ PageInit

\* lines 9-15: the request arrives; OPTIONS is answered at once, any other
\* method starts reading the body
Serve ==
    /\ pc = "idle"
    /\ \E m \in Methods, b \in Bodies :
        /\ req' = [method |-> m, body |-> b]
        /\ IF IsPreflight(m)
           THEN /\ responses' = Append(responses, PreflightResponse)
                /\ pc' = "done"
                /\ UNCHANGED stages
           ELSE /\ stages' = Append(stages, "body")
                /\ pc' = "readBody"
                /\ UNCHANGED responses
    /\ UNCHANGED <<env, query, folderId, access_token, files, idx, allData,
                   calls, inflight, received, failed>>
    /\ UNCHANGED pageVars

\* lines 15-44: the body is parsed, the secrets are checked, the service
\* account is parsed, the JWT header and claims are built and the key bytes
\* decoded; the handler then awaits importKey
ReadBody ==
    /\ pc = "readBody"
    /\ LET p == ParseBody(req.body)
           sa == ParseServiceAccount(env.GOOGLE_SERVICE_ACCOUNT)
       IN  IF ~p.ok
           THEN /\ Catch("body", "throw", p.msg)
                /\ UNCHANGED <<query, folderId, stages>>
           ELSE /\ query' = p.query
                /\ folderId' = p.folderId
                /\ IF SecretsMissing(env)
                   THEN /\ stages' = Append(stages, "secrets")
                        /\ Catch("secrets", "missing", MissingSecrets)
                   ELSE /\ stages' = stages \o <<"secrets", "signing">>
                        /\ IF ~sa.ok
                           THEN Catch("signing", "throw", "Unexpected token in JSON")
                           ELSE IF pemToArrayBuffer(sa.private_key).throws
                           THEN Catch("signing", "throw", "Failed to decode base64")
                           ELSE /\ pc' = "importKey"
                                /\ UNCHANGED <<failed, responses, inflight>>
    /\ UNCHANGED <<env, req, access_token, files, idx, allData, calls, received>>
    /\ UNCHANGED pageVars

\* lines 42-48: importKey settles
ImportKey ==
    /\ pc = "importKey"
    /\ LET sa == ParseServiceAccount(env.GOOGLE_SERVICE_ACCOUNT)
       IN  IF ImportKeyOk(pemToArrayBuffer(sa.private_key).der)
           THEN /\ pc' = "sign"
                /\ UNCHANGED <<failed, responses, inflight>>
           ELSE Catch("signing", "throw", "Invalid key data")
    /\ UNCHANGED <<env, req, query, folderId, access_token, files, idx, allData,
                   calls, received, stages>>
    /\ UNCHANGED pageVars

\* lines 50-63: sign settles, the JWT is assembled and the token request
\* is issued
Sign ==
    /\ pc = "sign"
    /\ stages' = Append(stages, "token")
    /\ Fetch(TokenCall, "awaitToken")
    /\ UNCHANGED <<env, req, query, folderId, access_token, files, idx, allData,
                   responses, received, failed>>
    /\ UNCHANGED pageVars

\* lines 59-72: the token reply is read and the folder listing is requested.
\* Neither tokenResponse.ok nor the presence of access_token is tested.
TokenResponse ==
    /\ pc = "awaitToken"
    /\ \E o \in TokenOutcomes :
        IF o.throws
        THEN /\ Catch("token", "throw", NetworkError)
             /\ UNCHANGED <<access_token, calls, stages>>
        ELSE /\ access_token' = o.access_token
             /\ failed' = failed \cup
                    ( IF ~o.ok THEN {Failure("token", "http")}
                      ELSE IF o.access_token = Undefined THEN {Failure("token", "missing")}
                      ELSE {} )
             /\ stages' = Append(stages, "discovery")
             /\ Fetch(ListCall(folderId, o.access_token), "awaitDrive")
             /\ UNCHANGED responses
    /\ UNCHANGED <<env, req, query, folderId, files, idx, allData, received>>
    /\ UNCHANGED pageVars

\* lines 69-90: the listing is read; with no files the handler throws,
\* otherwise allData is started and the first file's values are requested
DriveResponse ==
    /\ pc = "awaitDrive"
    /\ \E o \in DriveOutcomes(access_token) :
        IF o.throws
        THEN /\ Catch("discovery", "throw", NetworkError)
             /\ UNCHANGED <<files, idx, allData, calls, stages>>
        ELSE /\ files' = o.files
             /\ IF NoFilesFound(o.files)
                THEN /\ Catch("discovery", IF o.ok THEN "empty" ELSE "http", NoSpreadsheets)
                     /\ UNCHANGED <<idx, allData, calls, stages>>
                ELSE /\ allData' = AllDataHeader
                     /\ idx' = 1
                     /\ IF Len(o.files.list) >= 1
                        THEN /\ Fetch(ValuesCall(o.files.list[1], access_token), "awaitSheets")
                             /\ stages' = Append(stages, "retrieval")
                        ELSE \* for..of over no files: the loop body never runs
                             /\ Fetch(CompletionCall(query, AllDataHeader, env.LOVABLE_API_KEY),
                                      "awaitAi")
                             /\ stages' = stages \o <<"retrieval", "completion">>
                     /\ UNCHANGED <<failed, responses>>
    /\ UNCHANGED <<env, req, query, folderId, access_token, received>>
    /\ UNCHANGED pageVars

\* lines 87-145: one file's values are read and its rows appended; then the
\* next file is requested or, after the last file, the completion request
\* is issued.  sheetsResponse.ok is not tested.
SheetsResponse ==
    /\ pc = "awaitSheets"
    /\ \E o \in SheetsOutcomes(access_token) :
        IF o.throws
        THEN /\ Catch("retrieval", "throw", NetworkError)
             /\ UNCHANGED <<idx, allData, calls, received, stages>>
        ELSE LET data == Consolidate(allData, o.values, files.list[idx].name)
             IN  /\ allData' = data
                 /\ received' = Append(received, o.values)
                 /\ failed' = failed \cup
                        (IF o.ok THEN {} ELSE {Failure("retrieval", "http")})
                 /\ idx' = idx + 1
                 /\ IF idx < Len(files.list)
                    THEN /\ Fetch(ValuesCall(files.list[idx + 1], access_token), "awaitSheets")
                         /\ UNCHANGED stages
                    ELSE /\ Fetch(CompletionCall(query, data, env.LOVABLE_API_KEY), "awaitAi")
                         /\ stages' = Append(stages, "completion")
                 /\ UNCHANGED responses
    /\ UNCHANGED <<env, req, query, folderId, access_token, files>>
    /\ UNCHANGED pageVars

\* lines 131-161: the completion reply is read and the answer returned
AiResponse ==
    /\ pc = "awaitAi"
    /\ \E o \in AiOutcomes :
        IF o.throws
        THEN Catch("completion", "throw", NetworkError)
        ELSE IF ~o.ok
        THEN Catch("completion", "http", "AI API error: " \o ToString(o.status))
        ELSE IF ~o.wellFormed
        THEN Catch("completion", "throw", "Cannot read properties of undefined (reading '0')")
        ELSE /\ responses' = Append(responses, SuccessResponse(o.content))
             /\ inflight' = {}
             /\ pc' = "done"
             /\ UNCHANGED failed
    /\ UNCHANGED <<env, req, query, folderId, access_token, files, idx, allData,
                   calls, received, stages>>
    /\ UNCHANGED pageVars

Next ==
    \/ Serve
    \/ ReadBody
    \/ ImportKey
    \/ Sign
    \/ TokenResponse
    \/ DriveResponse
    \/ SheetsResponse
    \/ AiResponse

Spec == Init /\ [][Next]_vars

-----------------------------------------------------------------------------
(* Properties of the edge function.                                        *)

Range(f) == { f[i] : i \in DOMAIN f }

RECURSIVE Concat(_)
Concat(ss) == IF ss = <<>> THEN "" ELSE Head(ss) \o Concat(Tail(ss))

IsPrefix(s, t) == Len(s) <= Len(t) /\ \A i \in 1..Len(s) : s[i] = t[i]

Keys(r) == DOMAIN r.body.obj

\* a 500 response whose JSON body has the single key `error`
IsErrorEnvelope(r) ==
    /\ r.status = 500
    /\ r.body.kind = "json"
    /\ Keys(r) = {"error"}

LastResponseIsErrorEnvelope ==
    /\ responses # <<>>
    /\ IsErrorEnvelope(responses[Len(responses)])

\* the listing reply has been read and parsed (line 74 has run)
ListingRead ==
    /\ Len(calls) >= 2
    /\ 2 \notin inflight
    /\ ~ \E f \in failed : f.stage = "discovery" /\ f.why = "throw"

ASecretIsMissing ==
    \/ env.GOOGLE_SERVICE_ACCOUNT \in {Undefined, ""}
    \/ env.LOVABLE_API_KEY \in {Undefined, ""}

\* C1: for a request that is not a preflight, a failure at any stage gives
\* exactly one response, with status 500 and a body holding only `error`;
\* and no response holds both `answer` and `error`.
C1_AnyFailureYieldsErrorEnvelope ==
    /\ (pc = "done" /\ req.method # "OPTIONS" /\ failed # {})
          => (Len(responses) = 1 /\ IsErrorEnvelope(responses[1]))
    /\ \A i \in 1..Len(responses) : ~ ({"answer", "error"} \subseteq Keys(responses[i]))

\* C2: once the token exchange has failed (rejected fetch, non-2xx reply, or
\* a reply without access_token) no further outbound call is made and the
\* handler has returned the error envelope.
C2_TokenFailureAborts ==
    \A f \in failed :
        f.stage = "token" =>
            /\ Len(calls) = f.at
            /\ pc = "done"
            /\ LastResponseIsErrorEnvelope

\* C3: once reading a document's values has failed (rejected fetch or
\* non-2xx reply) no further document is fetched, the completion endpoint
\* is not called, and the handler has returned the error envelope.
C3_RetrievalFailureAborts ==
    \A f \in failed :
        f.stage = "retrieval" =>
            /\ Len(calls) = f.at
            /\ pc = "done"
            /\ LastResponseIsErrorEnvelope

\* C4: when the listing reply holds no files (absent or empty), the request
\* has ended with the 500 "no spreadsheets" envelope, and no values or
\* completion call was made.
C4_EmptyFolderIsFatal ==
    (ListingRead /\ (~files.defined \/ files.list = <<>>)) =>
        /\ pc = "done"
        /\ Len(responses) = 1
        /\ IsErrorEnvelope(responses[1])
        /\ responses[1].body.obj["error"] = "No spreadsheets found in folder"
        /\ \A i \in 1..Len(calls) : calls[i].ep \notin {"values", "completion"}

C4_Witness ==
    /\ ListingRead
    /\ files.defined
    /\ files.list = <<>>
    /\ pc = "done"

\* what the claim says one sheet row contributes: its 8 cells, then the name
ExpectedLine(row, name) ==
    row[1] \o "," \o row[2] \o "," \o row[3] \o "," \o row[4] \o "," \o
    row[5] \o "," \o row[6] \o "," \o row[7] \o "," \o row[8] \o "," \o name \o "\n"

ExpectedDoc(values, name) ==
    IF ~values.defined \/ values.rows = <<>> THEN ""
    ELSE LET kept == SelectSeq(Tail(values.rows), LAMBDA r : Len(r) >= 8)
         IN  Concat([k \in 1..Len(kept) |-> ExpectedLine(kept[k], name)])

ExpectedTable ==
    AllDataHeader \o
    Concat([d \in 1..Len(received) |-> ExpectedDoc(received[d], files.list[d].name)])

\* C5: the consolidated table is the header line followed by one line per
\* non-header row of at least 8 cells (its 8 cells, then the document name),
\* in discovery order and in sheet order; shorter rows, header rows, absent
\* blocks and header-only blocks add nothing; and that table is what the
\* completion request carries once every document has been read.
C5_TableIsHeaderPlusQualifyingRows ==
    ("retrieval" \in Range(stages)) =>
        /\ allData = ExpectedTable
        /\ \A i \in 1..Len(calls) :
              calls[i].ep = "completion" =>
                  /\ Len(received) = Len(files.list)
                  /\ calls[i].arg = "Pergunta: " \o query \o "\n\n--- DADOS ---\n" \o ExpectedTable

C5_Witness ==
    /\ pc = "awaitAi"
    /\ Len(received) = 2
    /\ received[1] = [defined |-> TRUE, rows |-> <<HeaderRow, RowA, RowB>>]
    /\ received[2] = [defined |-> TRUE, rows |-> <<HeaderRow, RowShort, RowA>>]
    /\ files.list = <<Doc(2), Doc(1)>>
    /\ allData = AllDataHeader
          \o "2024-01-05,T1,Mouse,Perifericos,Sul,2,50,100,vendas_2\n"
          \o "2024-01-09,T2,Monitor 27\",Video,Norte,1,1.234,50,1.234,50,vendas_2\n"
          \o "2024-01-05,T1,Mouse,Perifericos,Sul,2,50,100,vendas_1\n"

\* C6 as stated, read for the requests that enter the pipeline (any method
\* but OPTIONS): whenever a secret is missing, the response is the "Missing
\* required secrets" envelope and no outbound call was made.
C6_MissingSecretAlwaysReported ==
    (pc = "done" /\ ASecretIsMissing /\ req.method # "OPTIONS") =>
        /\ Len(responses) = 1
        /\ IsErrorEnvelope(responses[1])
        /\ responses[1].body.obj["error"] = "Missing required secrets"
        /\ calls = <<>>

\* C6, amended: for a request that is not a preflight and whose body parses,
\* a missing secret gives the "Missing required secrets" envelope; and with
\* a secret missing no request of any kind makes an outbound call.
C6_MissingSecretReportedOnceBodyParsed ==
    /\ (pc = "done" /\ ASecretIsMissing /\ req.method # "OPTIONS" /\ ParseBody(req.body).ok) =>
          /\ Len(responses) = 1
          /\ IsErrorEnvelope(responses[1])
          /\ responses[1].body.obj["error"] = "Missing required secrets"
    /\ ASecretIsMissing => (calls = <<>> /\ inflight = {})

C6_Witness ==
    /\ pc = "done"
    /\ env.GOOGLE_SERVICE_ACCOUNT = Undefined
    /\ env.LOVABLE_API_KEY = "lov-key"
    /\ req = [method |-> "POST", body |-> ValidBody]
    /\ stages = <<"body", "secrets">>

HasCors(r) ==
    /\ {"Access-Control-Allow-Origin", "Access-Control-Allow-Headers"} \subseteq DOMAIN r.headers
    /\ r.headers["Access-Control-Allow-Origin"] = "*"
    /\ r.headers["Access-Control-Allow-Headers"] =
          "authorization, x-client-info, apikey, content-type"

HasJsonContentType(r) ==
    /\ "Content-Type" \in DOMAIN r.headers
    /\ r.headers["Content-Type"] = "application/json"

\* C7 as stated: every response, the preflight's included, carries both
\* CORS headers and Content-Type: application/json.
C7_EveryResponseHasCorsAndContentType ==
    \A i \in 1..Len(responses) :
        HasCors(responses[i]) /\ HasJsonContentType(responses[i])

\* C7, amended: every response carries both CORS headers; the success and
\* error responses carry Content-Type: application/json as well, and the
\* preflight response carries the two CORS headers only.
C7_CorsOnAllContentTypeOnJson ==
    \A i \in 1..Len(responses) :
        /\ HasCors(responses[i])
        /\ IF req.method = "OPTIONS"
           THEN DOMAIN responses[i].headers =
                    {"Access-Control-Allow-Origin", "Access-Control-Allow-Headers"}
           ELSE HasJsonContentType(responses[i])

C7_Witness ==
    /\ pc = "done"
    /\ Len(responses) = 1
    /\ responses[1].status = 200
    /\ Keys(responses[1]) = {"answer"}
    /\ failed = {}

\* C8: a preflight is answered at once with status 200, exactly the two
\* CORS headers and no body, whatever the body and the secrets are, and no
\* pipeline stage runs for it: no body read, no outbound call.
C8_PreflightAnsweredWithoutPipeline ==
    req.method = "OPTIONS" =>
        /\ pc = "done"
        /\ Len(responses) = 1
        /\ responses[1].status = 200
        /\ DOMAIN responses[1].headers =
              {"Access-Control-Allow-Origin", "Access-Control-Allow-Headers"}
        /\ HasCors(responses[1])
        /\ responses[1].body.kind = "empty"
        /\ stages = <<>>
        /\ calls = <<>>
        /\ inflight = {}
        /\ failed = {}

C8_Witness ==
    /\ req = [method |-> "OPTIONS", body |-> "null"]
    /\ env.GOOGLE_SERVICE_ACCOUNT = Undefined
    /\ pc = "done"
    /\ responses # <<>>

CallKey(c) == IF c.ep = "values" THEN <<c.ep, c.arg>> ELSE <<c.ep, "">>

\* the order the claim gives: token, listing, each file in discovery order,
\* completion
PlannedCalls ==
    << <<"token", "">>, <<"list", "">> >>
    \o [i \in 1..Len(files.list) |-> <<"values", files.list[i].id>>]
    \o << <<"completion", "">> >>

\* C9: the outbound calls of a request are a prefix of token, listing,
\* values of file 1..N in discovery order, completion; none is issued
\* twice; at most one is in flight, and it is the last one issued; the
\* completion call comes only after every file's values were read.
C9_CallsAreSequentialPrefix ==
    /\ IsPrefix([i \in 1..Len(calls) |-> CallKey(calls[i])], PlannedCalls)
    /\ \A i, j \in 1..Len(calls) : i # j => calls[i] # calls[j]
    /\ Cardinality(inflight) <= 1
    /\ inflight \subseteq {Len(calls)}
    /\ \A i \in 1..Len(calls) :
          calls[i].ep = "completion" => Len(received) = Len(files.list)

C9_Witness ==
    /\ pc = "awaitAi"
    /\ Len(files.list) = 2
    /\ [i \in 1..Len(calls) |-> calls[i].ep] =
          <<"token", "list", "values", "values", "completion">>
    /\ inflight = {5}

-----------------------------------------------------------------------------
(* The chat page, one action per event.                                    *)

\* lines 184-190: onChange of the text box, which is disabled while loading
Type ==
    /\ ~isLoading
    /\ \E v \in InputTexts \ {input} : input' = v
    /\ UNCHANGED <<messages, isLoading, pending, submits, settled>>
    /\ UNCHANGED serverVars

\* lines 38-50: handleSubmit up to the await of invoke
HandleSubmit ==
    /\ submits < MaxSubmits
    /\ submits' = submits + 1
    /\ IF SubmitIgnored(input, isLoading)
       THEN UNCHANGED <<messages, input, isLoading, pending>>
       ELSE LET userMessage == Trim(input)
            IN  /\ input' = ""
                /\ messages' = Append(messages, Msg("user", userMessage))
                /\ isLoading' = TRUE
                /\ pending' = Append(pending,
                                     [query |-> userMessage, folderId |-> DefaultFolderId])
    /\ UNCHANGED settled
    /\ UNCHANGED serverVars

\* lines 48-78: an invoke settles; try, catch and finally run to the end
InvokeSettles ==
    /\ \E i \in 1..Len(pending), r \in InvokeResults :
        /\ pending' = SubSeq(pending, 1, i - 1) \o SubSeq(pending, i + 1, Len(pending))
        /\ messages' = messages \o Reply(r)
        /\ settled' = Append(settled, r)
    /\ isLoading' = FALSE
    /\ UNCHANGED <<input, submits>>
    /\ UNCHANGED serverVars

PageNext ==
    \/ Type
    \/ HandleSubmit
    \/ InvokeSettles

PageStart ==
    /\ env = [GOOGLE_SERVICE_ACCOUNT |-> SaOk, LOVABLE_API_KEY |-> "lov-key"]
    /\ ServerInit
    /\ PageInit

\* a promise returned by invoke settles
PageSpec == PageStart /\ [][PageNext]_vars /\ WF_vars(InvokeSettles)

-----------------------------------------------------------------------------
(* Properties of the chat page.                                            *)

IsFailure(r) == r.error \/ r.dataError # ""

\* the greeting, then user/assistant pairs, then one unanswered user
\* message exactly while loading; the k-th assistant reply is what the k-th
\* settled invoke calls for
C10_Shape ==
    /\ Len(pending) <= 1
    /\ isLoading <=> (pending # <<>>)
    /\ messages[1] = Greeting
    /\ \A k \in 2..Len(messages) :
          messages[k].role = (IF k % 2 = 0 THEN "user" ELSE "assistant")
    /\ isLoading <=> (Len(messages) % 2 = 0)
    /\ Len(messages) = 1 + 2 * Len(settled) + Len(pending)
    /\ \A k \in 1..Len(settled) :
          messages[2 * k + 1].content =
              (IF IsFailure(settled[k])
               THEN "Desculpe, ocorreu um erro ao processar sua consulta. Por favor, tente novamente."
               ELSE settled[k].answer)

\* a submit that arrives while loading, or with blank input, changes nothing
C10_IgnoredSubmit ==
    (submits' # submits /\ (isLoading \/ input \in {"", "  "}))
        => UNCHANGED <<messages, input, isLoading, pending, settled>>

\* C10: at most one invoke is in flight; a submit while loading or with
\* blank input changes nothing; the message list is the greeting followed
\* by user/assistant pairs, with one trailing user message exactly while
\* isLoading; every accepted submit is eventually answered by one assistant
\* message (the answer, or the apology on any failure) and isLoading
\* returns to false.
C10_ChatPage ==
    /\ []C10_Shape
    /\ [][C10_IgnoredSubmit]_vars
    /\ (isLoading ~> ~isLoading)

C10_Witness ==
    /\ submits = 3
    /\ ~isLoading
    /\ Len(messages) = 5
    /\ messages[2] = Msg("user", "por regiao")
    /\ messages[3] = Msg("assistant", Apology)
    /\ messages[4] = Msg("user", "total?")
    /\ messages[5] = Msg("assistant", "Sem dados")

====
